---------------------------- MODULE Spec2Model ----------------------------
(***************************************************************************)
(* A model of the contract review agent: the six-stage review pipeline     *)
(* (blocking, streamed and traced execution), the process logger that      *)
(* records the per-stage trace, the keyword rule engine, the knowledge     *)
(* base over the vector store, and the risk score.                         *)
(*                                                                         *)
(* Strings are sequences of tokens.  The Chinese literals of the source    *)
(* are written as ASCII tokens: "que_shao" is the marker the rule engine   *)
(* puts in front of a missing item and the score looks for, "wan_zheng"    *)
(* the suffix of a present item, "can_kao" the prefix of a guidance line.  *)
(* Similarity scores are in hundredths (0.7 is 70); embedding components   *)
(* are in tenths.                                                          *)
(***************************************************************************)
EXTENDS Integers, Sequences, FiniteSets, TLC

VARIABLES
    agent_logger,   \* ContractReviewAgent.logger: 0 is None, else a logger id
    loggers,        \* the ProcessLogger objects, by id (the run that made it)
    runs,           \* the analysis calls made so far, in order of creation
    end_marker,     \* does graph.stream close with an "__end__" chunk
    risks,          \* score harness: the risks argument
    compliance,     \* score harness: the compliance argument
    score,          \* score harness: the value calculate_risk_score returned
    checker_rules,  \* rule harness: ComplianceChecker.rules
    review_text,    \* rule harness: the text under review
    calls,          \* rule harness: the calls made, each with what it returned
    returned,       \* rule harness: the list check_compliance returned last
    vstore,         \* store harness: a VectorStore (index, documents, metadata)
    disk,           \* store harness: the files <path>.faiss and <path>.pkl
    outcome,        \* store harness: the outcome of the last operation
    hist,           \* store harness: what the last operations were applied to
    kb,             \* knowledge harness: the last search_relevant_knowledge
    stage           \* stage harness: the last stage run, with and without logger

rule_vars == <<checker_rules, review_text, calls, returned>>

store_vars == <<vstore, disk, outcome, hist>>

vars == <<agent_logger, loggers, runs, end_marker, risks, compliance, score,
          rule_vars, store_vars, kb, stage>>

-----------------------------------------------------------------------------
(* Bounds of the model *)

MaxRuns == 2        \* analysis calls made on the one agent
MaxRisks == 3       \* length of the risks argument of the score harness
MaxCompliance == 2  \* length of the compliance argument of the score harness

-----------------------------------------------------------------------------
(* Sequences and strings *)

None == "None"

Min(a, b) == IF a < b THEN a ELSE b

Max(a, b) == IF a > b THEN a ELSE b

\* s[:n]
Prefix(s, n) == SubSeq(s, 1, Min(Len(s), n))

\* kw in s, for strings: kw occurs in s as a contiguous run
Contains(s, kw) ==
    \E i \in 1..(Len(s) - Len(kw) + 1) : SubSeq(s, i, i + Len(kw) - 1) = kw

\* [x for x in s if Keep(x)]
Filter(s, Keep(_)) == SelectSeq(s, Keep)

\* [F(x) for x in s]
Map(s, F(_)) == [i \in 1..Len(s) |-> F(s[i])]

QueShao == <<"que_shao">>

WanZheng == <<"wan_zheng">>

CanKao == <<"can_kao">>

-----------------------------------------------------------------------------
(* The rule set (rules/review_rules.yaml, loaded once) and the rule engine *)

Rules ==
    [compliance_checks |-> <<
        [name |-> <<"parties">>, keywords |-> <<<<"party">>, <<"buyer">>>>,
         required |-> TRUE],
        [name |-> <<"liability">>, keywords |-> <<<<"penalty">>>>,
         required |-> TRUE],
        [name |-> <<"annex">>, keywords |-> <<<<"price">>>>,
         required |-> FALSE]>>,
     risk_patterns |-> <<
        [name |-> <<"high_penalty">>, keywords |-> <<<<"penalty">>>>,
         severity |-> "high"],
        [name |-> <<"one_sided_exit">>, keywords |-> <<<<"terminate">>>>,
         severity |-> "medium"],
        [name |-> <<"vague_price">>, keywords |-> <<<<"price">>>>,
         severity |-> "low"]>>]

\* any(keyword in text for keyword in keywords)
AnyKeyword(text, keywords) ==
    \E i \in 1..Len(keywords) : Contains(text, keywords[i])

\* a rule engine that reports every rule, required or not
RECURSIVE ComplianceOf_all(_, _)
ComplianceOf_all(checks, text) ==
    IF checks = <<>> THEN <<>>
    ELSE LET check == Head(checks)
             found == \E i \in 1..Len(check.keywords) : Contains(text, check.keywords[i])
         IN  <<IF found THEN check.name \o WanZheng ELSE QueShao \o check.name>>
             \o ComplianceOf_all(Tail(checks), text)

RECURSIVE ComplianceOf(_, _)
ComplianceOf(checks, text) ==
    IF checks = <<>> THEN <<>>
    ELSE LET check == Head(checks)
             found == AnyKeyword(text, check.keywords)
             out == IF check.required /\ found THEN <<check.name \o WanZheng>>
                    ELSE IF check.required /\ ~found
                         THEN <<QueShao \o check.name>>
                         ELSE <<>>
         IN  out \o ComplianceOf(Tail(checks), text)

check_compliance(text) == ComplianceOf(Rules.compliance_checks, text)

\* a rule engine that reports the first matching pattern only
RECURSIVE RisksOf_first(_, _)
RisksOf_first(patterns, text) ==
    IF patterns = <<>> THEN <<>>
    ELSE LET pattern == Head(patterns)
         IN  IF \E i \in 1..Len(pattern.keywords) : Contains(text, pattern.keywords[i])
             THEN <<[clause |-> "dai_ding_wei", issue |-> pattern.name,
                     severity |-> pattern.severity]>>
             ELSE RisksOf_first(Tail(patterns), text)

RECURSIVE RisksOf(_, _)
RisksOf(patterns, text) ==
    IF patterns = <<>> THEN <<>>
    ELSE LET pattern == Head(patterns)
             out == IF AnyKeyword(text, pattern.keywords)
                    THEN <<[clause |-> "dai_ding_wei", issue |-> pattern.name,
                            severity |-> pattern.severity]>>
                    ELSE <<>>
         IN  out \o RisksOf(Tail(patterns), text)

identify_risks(text) == RisksOf(Rules.risk_patterns, text)

\* a results list kept between calls
results_list_kept(previous) == previous

\* results = [] of check_compliance: a new list at every call, whatever
\* became of the list returned before
results_list(previous) == <<>>

-----------------------------------------------------------------------------
(* The risk score *)

HighWeight == 3

MediumWeight == 2

ComplianceWeight == 2

BaseScore == 10

PenaltyCap == 8

ScoreFloor == 1

IsHigh(r) == r.severity = "high"

IsMedium(r) == r.severity = "medium"

HasQueShao(c) == Contains(c, QueShao)

calculate_risk_score_no_floor(rs, cs) ==
    LET risk_count == Len(Filter(rs, IsHigh)) * HighWeight
                      + Len(Filter(rs, IsMedium)) * MediumWeight
        compliance_issues == Len(Filter(cs, HasQueShao))
    IN  BaseScore - (risk_count + compliance_issues * ComplianceWeight)

calculate_risk_score_swapped(rs, cs) ==
    LET risk_count == Len(Filter(rs, IsHigh)) * MediumWeight
                      + Len(Filter(rs, IsMedium)) * HighWeight
        compliance_issues == Len(Filter(cs, HasQueShao))
        penalty == Min(risk_count + compliance_issues * ComplianceWeight,
                       PenaltyCap)
    IN  Max(BaseScore - penalty, ScoreFloor)

calculate_risk_score(rs, cs) ==
    LET risk_count == Len(Filter(rs, IsHigh)) * HighWeight
                      + Len(Filter(rs, IsMedium)) * MediumWeight
        compliance_issues == Len(Filter(cs, HasQueShao))
        base_score == BaseScore
        penalty == Min(risk_count + compliance_issues * ComplianceWeight,
                       PenaltyCap)
    IN  Max(base_score - penalty, ScoreFloor)

-----------------------------------------------------------------------------
(* The embedding provider and the chat model: external, deterministic *)

TokenVec ==
    [tok \in {"party", "buyer", "penalty", "terminate", "price", "law8",
              "elements", "penalty_rule", "exit_rule", "dispute_rule",
              "other"} |->
        CASE tok = "party" -> <<5, 1>>
          [] tok = "penalty" -> <<4, 1>>
          [] tok = "price" -> <<1, 4>>
          [] tok = "terminate" -> <<1, 5>>
          [] tok = "buyer" -> <<6, 4>>
          [] tok = "law8" -> <<10, 0>>
          [] tok = "elements" -> <<8, 6>>
          [] tok = "penalty_rule" -> <<0, 10>>
          [] tok = "exit_rule" -> <<6, 8>>
          [] tok = "dispute_rule" -> <<3, 3>>
          [] tok = "other" -> <<2, 2>>]

RECURSIVE embed_query(_)
embed_query(text) ==
    IF text = <<>> THEN <<0, 0>>
    ELSE LET h == TokenVec[Head(text)]
             t == embed_query(Tail(text))
         IN  <<h[1] + t[1], h[2] + t[2]>>

embed_documents(chunks) == [i \in 1..Len(chunks) |-> embed_query(chunks[i])]

llm_invoke(prompt) == <<"summary_of">> \o prompt

-----------------------------------------------------------------------------
(* The vector store: a flat inner-product index beside two parallel lists *)

ChunkSize == 500

NegInf == -1000000

\* index is None
NoIndex == [is_none |-> TRUE, d |-> 0, vecs |-> <<>>]

EmptyStore == [index |-> NoIndex, documents |-> <<>>, metadata |-> <<>>]

\* text_splitter.split_text: a text of at most ChunkSize is one chunk
RECURSIVE split_text(_)
split_text(text) ==
    IF Len(text) <= ChunkSize THEN <<text>>
    ELSE <<SubSeq(text, 1, ChunkSize)>>
         \o split_text(SubSeq(text, ChunkSize + 1, Len(text)))

RECURSIVE Dot(_, _)
Dot(u, v) ==
    IF u = <<>> \/ v = <<>> THEN 0
    ELSE Head(u) * Head(v) + Dot(Tail(u), Tail(v))

RECURSIVE ChunksOf(_, _, _)
ChunksOf(texts, metadatas, i) ==
    IF i > Len(texts) THEN <<>>
    ELSE LET text_chunks == split_text(texts[i])
             meta == IF metadatas # <<>> THEN metadatas[i]
                     ELSE [source |-> <<"doc", i - 1>>]
         IN  [j \in 1..Len(text_chunks) |->
                 [chunk |-> text_chunks[j], meta |-> meta]]
             \o ChunksOf(texts, metadatas, i + 1)

\* add_documents, when index.add accepts the embeddings; metadatas = None
\* is <<>>, which the source's test cannot tell from an empty list
add_documents(store, texts, metadatas) ==
    LET cm == ChunksOf(texts, metadatas, 1)
        chunks == [i \in 1..Len(cm) |-> cm[i].chunk]
        chunk_metadata == [i \in 1..Len(cm) |-> cm[i].meta]
        embeddings_array == embed_documents(chunks)
        index == IF store.index.is_none
                 THEN [is_none |-> FALSE, d |-> Len(embeddings_array[1]),
                       vecs |-> <<>>]
                 ELSE store.index
    IN  [index |-> [index EXCEPT !.vecs = @ \o embeddings_array],
         documents |-> store.documents \o chunks,
         metadata |-> store.metadata \o chunk_metadata]

\* position i of the index comes before position j in the ranking for q
Before(vecs, q, i, j) ==
    \/ Dot(q, vecs[i]) > Dot(q, vecs[j])
    \/ Dot(q, vecs[i]) = Dot(q, vecs[j]) /\ i < j

\* index.search(query_array, k): k labels (0-based, -1 where the index has
\* run out of vectors) and their scores
index_search(index, q, k) ==
    LET n == Len(index.vecs)
        rank(i) == 1 + Cardinality({j \in 1..n : Before(index.vecs, q, j, i)})
        at(p) == CHOOSE i \in 1..n : rank(i) = p
    IN  [p \in 1..k |->
            IF p <= n THEN [idx |-> at(p) - 1, score |-> Dot(q, index.vecs[at(p)])]
            ELSE [idx |-> -1, score |-> NegInf]]

\* a Python list subscript: a negative one counts from the end
PyIndex(list, idx) == IF idx < 0 THEN list[Len(list) + idx + 1] ELSE list[idx + 1]

similarity_search(store, query, k) ==
    IF store.index.is_none THEN <<>>
    ELSE LET found == index_search(store.index, embed_query(query), k)
             hit(f) == f.idx < Len(store.documents)
             result(f) == [content |-> PyIndex(store.documents, f.idx),
                           metadata |-> PyIndex(store.metadata, f.idx),
                           score |-> f.score]
         IN  Map(Filter(found, hit), result)

-----------------------------------------------------------------------------
(* The knowledge base *)

SearchK == 3

ComplianceThreshold == 70

RiskThreshold == 60

legal_knowledge ==
    << [content |-> <<"law8">>, type |-> "fa_lv_tiao_wen",
        category |-> "he_tong_xiao_li"],
       [content |-> <<"elements">>, type |-> "he_tong_yao_su",
        category |-> "he_tong_jie_gou"],
       [content |-> <<"penalty_rule">>, type |-> "feng_xian_ti_shi",
        category |-> "wei_yue_ze_ren"],
       [content |-> <<"exit_rule">>, type |-> "feng_xian_ti_shi",
        category |-> "he_tong_jie_chu"],
       [content |-> <<"dispute_rule">>, type |-> "he_tong_tiao_kuan",
        category |-> "zheng_yi_jie_jue"] >>

\* KnowledgeBase.__init__: the store after _initialize_knowledge
vector_store ==
    LET meta(item) == [type |-> item.type, category |-> item.category]
        content(item) == item.content
    IN  add_documents(EmptyStore, Map(legal_knowledge, content),
                      Map(legal_knowledge, meta))

\* a search that filters all the documents, not the first SearchK
search_relevant_knowledge_wide(query, category) ==
    LET results == similarity_search(vector_store, query, Len(legal_knowledge))
        same(r) == r.metadata.category = category
    IN  IF category # None /\ category # "" THEN Filter(results, same)
        ELSE Prefix(results, SearchK)

\* if category: is false for None and for the empty string
search_relevant_knowledge(query, category) ==
    LET results == similarity_search(vector_store, query, SearchK)
        same(r) == r.metadata.category = category
    IN  IF category # None /\ category # "" THEN Filter(results, same) ELSE results

\* a guidance that keeps a result whose score is the threshold itself
get_compliance_guidance_at_least(text) ==
    LET structure_results == search_relevant_knowledge(text, "he_tong_jie_gou")
        keep(r) == r.score >= ComplianceThreshold
        line(r) == CanKao \o r.content
    IN  Map(Filter(structure_results, keep), line)

get_compliance_guidance(text) ==
    LET structure_results == search_relevant_knowledge(text, "he_tong_jie_gou")
        keep(r) == r.score > ComplianceThreshold
        line(r) == CanKao \o r.content
    IN  Map(Filter(structure_results, keep), line)

get_risk_analysis(text) ==
    LET risk_results == search_relevant_knowledge(text, "feng_xian_ti_shi")
        keep(r) == r.score > RiskThreshold
        entry(r) == [guidance |-> r.content, category |-> r.metadata.category,
                     relevance |-> r.score]
    IN  Map(Filter(risk_results, keep), entry)

-----------------------------------------------------------------------------
(* ProcessLogger.  A step keeps, beside the fields of ProcessStep, the run *)
(* whose code opened it ("run", a history field the program does not have). *)
(* end_time and duration are None or "set"; input_data and output_data are  *)
(* <<>> for None.                                                          *)

NoLogger == [is_none |-> TRUE, steps |-> <<>>, current_step |-> 0]

\* ProcessLogger.__init__
NewLogger == [is_none |-> FALSE, steps |-> <<>>, current_step |-> 0]

\* step(): up to the yield
step_enter(lg, step_id, run) ==
    LET step == [step_id |-> step_id, status |-> "IN_PROGRESS",
                 end_time |-> None, duration |-> None, input_data |-> <<>>,
                 output_data |-> <<>>, error |-> None, run |-> run]
    IN  [lg EXCEPT !.steps = Append(@, step), !.current_step = Len(lg.steps) + 1]

\* step(): the body returned
step_completed(lg, i) ==
    [lg EXCEPT !.steps[i].status = "COMPLETED", !.steps[i].end_time = "set",
               !.steps[i].duration = "set", !.current_step = 0]

\* a step() whose except branch swallows the failure
step_failed_as_completed(lg, i, e) == step_completed(lg, i)

\* a step() whose except branch marks every event of the trace
step_failed_all(lg, i, e) ==
    [lg EXCEPT !.steps = [j \in 1..Len(lg.steps) |->
                             [lg.steps[j] EXCEPT !.status = "FAILED",
                                                 !.end_time = "set",
                                                 !.duration = "set",
                                                 !.error = e]],
               !.current_step = 0]

\* step(): the body raised e
step_failed(lg, i, e) ==
    [lg EXCEPT !.steps[i].status = "FAILED", !.steps[i].end_time = "set",
               !.steps[i].duration = "set", !.steps[i].error = e,
               !.current_step = 0]

log_input(lg, data) ==
    IF lg.current_step # 0 THEN [lg EXCEPT !.steps[lg.current_step].input_data = data]
    ELSE lg

log_output(lg, data) ==
    IF lg.current_step # 0 THEN [lg EXCEPT !.steps[lg.current_step].output_data = data]
    ELSE lg

failed_steps(lg) == Len(Filter(lg.steps, LAMBDA st : st.status = "FAILED"))

completed_steps(lg) == Len(Filter(lg.steps, LAMBDA st : st.status = "COMPLETED"))

get_summary(lg) ==
    [total_steps |-> Len(lg.steps), completed_steps |-> completed_steps(lg),
     failed_steps |-> failed_steps(lg), steps |-> lg.steps]

-----------------------------------------------------------------------------
(* LLMClient.generate_summary and its call *)

QueryPrefixLen == 1000

PromptTextLen == 2000

\* the positional parameters of LLMClient.generate_summary, after self
GenerateSummaryParams == 1

\* "\n".join(parts)
RECURSIVE Join(_)
Join(parts) ==
    IF parts = <<>> THEN <<>>
    ELSE IF Len(parts) = 1 THEN Head(parts)
    ELSE Head(parts) \o <<"\n">> \o Join(Tail(parts))

\* a call of llm_client.generate_summary with the positional arguments args:
\* Python binds them to the parameters before the body runs
generate_summary(args, llm_ok) ==
    IF Len(args) # GenerateSummaryParams
    THEN [error |-> "TypeError", content |-> <<>>]
    ELSE IF ~llm_ok
    THEN [error |-> "CompletionProviderError", content |-> <<>>]
    ELSE [error |-> None,
          content |-> llm_invoke(<<"prompt">> \o Prefix(args[1], PromptTextLen))]

-----------------------------------------------------------------------------
(* The stage nodes.  Each takes the state, the agent's logger at the time  *)
(* it runs (NoLogger when self.logger is None), the running call, and      *)
(* whether the provider it calls answers; it gives the state, the logger   *)
(* and the exception raised (None when it returns).                        *)

ContractState(text) ==
    [text |-> text, summary |-> <<>>, risks |-> <<>>, compliance |-> <<>>,
     score |-> 0, knowledge_context |-> <<>>]

Returned(state, lg) == [state |-> state, lg |-> lg, error |-> None]

Raised(state, lg, e) == [state |-> state, lg |-> lg, error |-> e]

_parse_document(state, lg, run) ==
    IF ~lg.is_none
    THEN LET l1 == step_enter(lg, "parse", run)
             l2 == log_input(l1, <<"text_length", Len(state.text)>>)
             l3 == log_output(l2, <<"parsed", 1>>)
         IN  Returned(state, step_completed(l3, Len(l1.steps)))
    ELSE Returned(state, lg)

\* a node whose branch without a logger leaves the guidance out
_check_compliance_bare(state, lg, run, embed_ok) ==
    IF ~lg.is_none
    THEN LET l1 == step_enter(lg, "compliance", run)
             i == Len(l1.steps)
             compliance1 == check_compliance(state.text)
             guidance == get_compliance_guidance(state.text)
             extended == compliance1 \o guidance
         IN  IF ~embed_ok
             THEN Raised(state, step_failed(l1, i, "EmbeddingProviderError"),
                         "EmbeddingProviderError")
             ELSE Returned([state EXCEPT !.compliance = extended],
                           step_completed(
                               log_output(l1, <<"compliance_items", Len(extended)>>), i))
    ELSE IF ~embed_ok THEN Raised(state, lg, "EmbeddingProviderError")
         ELSE Returned([state EXCEPT !.compliance = check_compliance(state.text)], lg)

\* a node that starts the compliance list over when it has scored
_calculate_score_resets(state, lg, run) ==
    LET value == calculate_risk_score(state.risks, state.compliance)
        new == [state EXCEPT !.score = value, !.compliance = <<>>]
    IN  IF ~lg.is_none
        THEN LET l1 == step_enter(lg, "score", run)
             IN  Returned(new, step_completed(
                     log_output(l1, <<"final_score", value>>), Len(l1.steps)))
        ELSE Returned(new, lg)

_retrieve_knowledge(state, lg, run, embed_ok) ==
    IF ~lg.is_none
    THEN LET l1 == step_enter(lg, "retrieve", run)
             i == Len(l1.steps)
             knowledge_results ==
                 search_relevant_knowledge(Prefix(state.text, QueryPrefixLen), None)
         IN  IF ~embed_ok
             THEN Raised(state, step_failed(l1, i, "EmbeddingProviderError"),
                         "EmbeddingProviderError")
             ELSE Returned([state EXCEPT !.knowledge_context = knowledge_results],
                           step_completed(
                               log_output(l1, <<"knowledge_count",
                                                Len(knowledge_results)>>), i))
    ELSE LET knowledge_results ==
                 search_relevant_knowledge(Prefix(state.text, QueryPrefixLen), None)
         IN  IF ~embed_ok THEN Raised(state, lg, "EmbeddingProviderError")
             ELSE Returned([state EXCEPT !.knowledge_context = knowledge_results], lg)

_check_compliance(state, lg, run, embed_ok) ==
    IF ~lg.is_none
    THEN LET l1 == step_enter(lg, "compliance", run)
             i == Len(l1.steps)
             compliance1 == check_compliance(state.text)
             guidance == get_compliance_guidance(state.text)
             extended == compliance1 \o guidance
         IN  IF ~embed_ok
             THEN Raised(state, step_failed(l1, i, "EmbeddingProviderError"),
                         "EmbeddingProviderError")
             ELSE Returned([state EXCEPT !.compliance = extended],
                           step_completed(
                               log_output(l1, <<"compliance_items", Len(extended)>>), i))
    ELSE LET compliance1 == check_compliance(state.text)
             guidance == get_compliance_guidance(state.text)
             extended == compliance1 \o guidance
         IN  IF ~embed_ok THEN Raised(state, lg, "EmbeddingProviderError")
             ELSE Returned([state EXCEPT !.compliance = extended], lg)

\* the entry _identify_risks appends for a result of get_risk_analysis
knowledge_risk(analysis) ==
    [clause |-> "zhi_shi_ku_fen_xi",
     issue |-> Prefix(analysis.guidance, 50) \o <<"...">>,
     severity |-> "medium"]

_identify_risks(state, lg, run, embed_ok) ==
    IF ~lg.is_none
    THEN LET l1 == step_enter(lg, "risks", run)
             i == Len(l1.steps)
             found == identify_risks(state.text)
             risk_analysis == get_risk_analysis(state.text)
             all == found \o Map(risk_analysis, knowledge_risk)
             high_risks == Filter(all, IsHigh)
         IN  IF ~embed_ok
             THEN Raised(state, step_failed(l1, i, "EmbeddingProviderError"),
                         "EmbeddingProviderError")
             ELSE Returned([state EXCEPT !.risks = all],
                           step_completed(
                               log_output(l1, <<"risk_count", Len(all),
                                                "high_risk_count", Len(high_risks)>>), i))
    ELSE LET found == identify_risks(state.text)
             risk_analysis == get_risk_analysis(state.text)
             all == found \o Map(risk_analysis, knowledge_risk)
         IN  IF ~embed_ok THEN Raised(state, lg, "EmbeddingProviderError")
             ELSE Returned([state EXCEPT !.risks = all], lg)

\* "\n".join([k["content"] for k in state["knowledge_context"]])
joined_context(state) ==
    LET content(k) == k.content
    IN  Join(Map(state.knowledge_context, content))

_generate_summary(state, lg, run, llm_ok) ==
    IF ~lg.is_none
    THEN LET l1 == step_enter(lg, "summary", run)
             i == Len(l1.steps)
             call == generate_summary(<<state.text, joined_context(state)>>, llm_ok)
         IN  IF call.error # None
             THEN Raised(state, step_failed(l1, i, call.error), call.error)
             ELSE Returned([state EXCEPT !.summary = call.content],
                           step_completed(
                               log_output(l1, <<"summary_length", Len(call.content)>>), i))
    ELSE LET call == generate_summary(<<state.text, joined_context(state)>>, llm_ok)
         IN  IF call.error # None THEN Raised(state, lg, call.error)
             ELSE Returned([state EXCEPT !.summary = call.content], lg)

_calculate_score(state, lg, run) ==
    IF ~lg.is_none
    THEN LET l1 == step_enter(lg, "score", run)
             value == calculate_risk_score(state.risks, state.compliance)
         IN  Returned([state EXCEPT !.score = value],
                      step_completed(
                          log_output(l1, <<"final_score", value>>), Len(l1.steps)))
    ELSE Returned([state EXCEPT !.score =
                       calculate_risk_score(state.risks, state.compliance)], lg)

-----------------------------------------------------------------------------
(* The compiled graph *)

EntryPoint == "parse"

END == "__end__"

\* workflow.add_edge(from, to)
Edges ==
    {<<"parse", "retrieve_knowledge">>,
     <<"retrieve_knowledge", "check_compliance">>,
     <<"check_compliance", "identify_risks">>,
     <<"identify_risks", "generate_summary">>,
     <<"generate_summary", "calculate_score">>,
     <<"calculate_score", END>>}

Successor(node) ==
    IF \E e \in Edges : e[1] = node THEN (CHOOSE e \in Edges : e[1] = node)[2]
    ELSE END

\* workflow.add_node(name, method): the method run for a node
Node(name, state, lg, run, ok) ==
    CASE name = "parse" -> _parse_document(state, lg, run)
      [] name = "retrieve_knowledge" -> _retrieve_knowledge(state, lg, run, ok)
      [] name = "check_compliance" -> _check_compliance(state, lg, run, ok)
      [] name = "identify_risks" -> _identify_risks(state, lg, run, ok)
      [] name = "generate_summary" -> _generate_summary(state, lg, run, ok)
      [] name = "calculate_score" -> _calculate_score(state, lg, run)

-----------------------------------------------------------------------------
(* The calls made on the one process-wide agent.  The server runs on one   *)
(* event loop: a blocking call (analyze_contract, analyze_contract_with_   *)
(* trace) runs to its end before anything else does, a stream is suspended *)
(* at each yield until its consumer asks for the next event.               *)

\* the texts the uploaded files hold
Files == {<<"party", "penalty">>, <<"price", "terminate">>}

node_names ==
    [n \in {"parse", "retrieve_knowledge", "check_compliance",
            "identify_risks", "generate_summary", "calculate_score"} |->
        CASE n = "parse" -> "wen_dang_jie_xi"
          [] n = "retrieve_knowledge" -> "zhi_shi_jian_suo"
          [] n = "check_compliance" -> "he_gui_xing_jian_cha"
          [] n = "identify_risks" -> "feng_xian_shi_bie"
          [] n = "generate_summary" -> "sheng_cheng_zhai_yao"
          [] n = "calculate_score" -> "feng_xian_ping_fen"]

NewRun(kind, file) ==
    [kind |-> kind, pc |-> "created", file |-> file,
     state |-> ContractState(<<>>), next |-> EntryPoint, executed |-> <<>>,
     logger |-> 0, events |-> <<>>, trace_log |-> <<>>, open_step |-> 0,
     result |-> <<>>, error |-> None]

\* no blocking call is on the stack
Idle ==
    \A q \in 1..Len(runs) :
        runs[q].kind \in {"analyze", "trace"} => runs[q].pc \in {"returned", "raised"}

\* self.logger, as the stage nodes see it
Lg == IF agent_logger = 0 THEN NoLogger ELSE loggers[agent_logger]

SetLg(lg) ==
    IF agent_logger = 0 THEN loggers ELSE [loggers EXCEPT ![agent_logger] = lg]

\* the dict analyze_contract and analyze_contract_stream build from a state
ResultData(st) ==
    [summary |-> st.summary, risks |-> st.risks, compliance |-> st.compliance,
     score |-> st.score]

\* an except branch that returns what the state holds so far
caller_except_partial(run, e) ==
    [run EXCEPT !.pc = "returned", !.error = e,
                !.result = <<ResultData(run.state)>>]

\* except Exception as e: ... raise, of the two blocking calls: the call
\* ends with the exception and gives its caller nothing
caller_except(run, e) == [run EXCEPT !.pc = "raised", !.error = e]

\* the return statement of analyze_contract
analyze_return(run) ==
    [run EXCEPT !.pc = "returned", !.result = <<ResultData(run.state)>>]

\* a graph that has already entered the following node when it hands over
\* a node's output
RunNode_ahead(run, out) ==
    [run EXCEPT !.executed = IF out.error = None /\ Successor(run.next) # END
                             THEN @ \o <<run.next, Successor(run.next)>>
                             ELSE Append(@, run.next),
                !.state = out.state,
                !.next = IF out.error = None THEN Successor(Successor(@)) ELSE @]

\* one node of the compiled graph run on the call's state
RunNode(run, out) ==
    [run EXCEPT !.executed = Append(@, run.next),
                !.state = out.state,
                !.next = IF out.error = None THEN Successor(@) ELSE @]

\* analyze_contract, up to graph.invoke
CallAnalyze(file, ok) ==
    /\ Idle
    /\ Len(runs) < MaxRuns
    /\ LET r == Len(runs) + 1
           id == Len(loggers) + 1
           l1 == log_input(step_enter(NewLogger, "init", r), <<"file_path", 0>>)
           run == [NewRun("analyze", file) EXCEPT !.logger = id]
       IN  /\ agent_logger' = id
           /\ IF ok
              THEN /\ loggers' = Append(loggers, step_completed(l1, 1))
                   /\ runs' = Append(runs, [run EXCEPT !.pc = "graph",
                                               !.state = ContractState(file)])
              ELSE /\ loggers' = Append(loggers, step_failed(l1, 1, "ExtractionError"))
                   /\ runs' = Append(runs, caller_except(run, "ExtractionError"))
    /\ UNCHANGED <<end_marker, risks, compliance, score,
                 rule_vars, store_vars, kb, stage>>

\* graph.invoke, one node at a time, and the return of analyze_contract
InvokeStep(r, ok) ==
    /\ runs[r].kind = "analyze"
    /\ runs[r].pc = "graph"
    /\ IF runs[r].next = END
       THEN /\ runs' = [runs EXCEPT ![r] = analyze_return(runs[r])]
            /\ UNCHANGED loggers
       ELSE \E out \in {Node(runs[r].next, runs[r].state, Lg, r, ok)} :
                /\ loggers' = SetLg(out.lg)
                /\ runs' = [runs EXCEPT ![r] =
                       IF out.error = None THEN RunNode(@, out)
                       ELSE caller_except(RunNode(@, out), out.error)]
    /\ UNCHANGED <<agent_logger, end_marker, risks, compliance, score,
                 rule_vars, store_vars, kb, stage>>

\* analyze_contract_with_trace, up to the loop over graph.stream
CallTrace(file, ok) ==
    /\ Idle
    /\ Len(runs) < MaxRuns
    /\ LET r == Len(runs) + 1
           id == Len(loggers) + 1
           l1 == log_input(step_enter(NewLogger, "init_trace", r), <<"file_path", 0>>)
           l2 == step_enter(step_completed(l1, 1), "execute_workflow", r)
           run == [NewRun("trace", file) EXCEPT !.logger = id]
       IN  /\ agent_logger' = id
           /\ IF ok
              THEN /\ loggers' = Append(loggers, l2)
                   /\ runs' = Append(runs, [run EXCEPT !.pc = "graph",
                                               !.state = ContractState(file),
                                               !.open_step = Len(l2.steps)])
              ELSE /\ loggers' = Append(loggers, step_failed(l1, 1, "ExtractionError"))
                   /\ runs' = Append(runs, caller_except(run, "ExtractionError"))
    /\ UNCHANGED <<end_marker, risks, compliance, score,
                 rule_vars, store_vars, kb, stage>>

\* the final_result analyze_contract_with_trace takes from the chunks
trace_final_result(trace_log, initial_state) ==
    LET ends == {i \in 1..Len(trace_log) : trace_log[i].node = END}
    IN  IF ends # {}
        THEN trace_log[CHOOSE i \in ends : \A j \in ends : j <= i].state
        ELSE IF trace_log # <<>> THEN trace_log[Len(trace_log)].state
        ELSE initial_state

\* one turn of the loop over graph.stream in analyze_contract_with_trace,
\* the end of the execute_workflow step and the return
TraceStep(r, ok) ==
    /\ runs[r].kind = "trace"
    /\ runs[r].pc = "graph"
    /\ IF runs[r].next = END
       THEN LET trace_log == IF end_marker
                             THEN Append(runs[r].trace_log,
                                         [node |-> END, state |-> runs[r].state])
                             ELSE runs[r].trace_log
                final_result == trace_final_result(trace_log,
                                                   ContractState(runs[r].file))
            IN  /\ runs' = [runs EXCEPT ![r].pc = "returned",
                               ![r].trace_log = trace_log,
                               ![r].result = <<ResultData(final_result)>>]
                /\ loggers' = [loggers EXCEPT ![runs[r].logger] =
                                  step_completed(@, runs[r].open_step)]
       ELSE \E out \in {Node(runs[r].next, runs[r].state, Lg, r, ok)} :
                IF out.error = None
                THEN /\ loggers' = SetLg(out.lg)
                     /\ runs' = [runs EXCEPT ![r] =
                            [RunNode(@, out) EXCEPT !.trace_log =
                                Append(@, [node |-> runs[r].next, state |-> out.state])]]
                ELSE /\ loggers' = [SetLg(out.lg) EXCEPT ![runs[r].logger] =
                                        step_failed(@, runs[r].open_step, out.error)]
                     /\ runs' = [runs EXCEPT ![r] =
                            caller_except(RunNode(@, out), out.error)]
    /\ UNCHANGED <<agent_logger, end_marker, risks, compliance, score,
                 rule_vars, store_vars, kb, stage>>

\* analyze_contract_stream(file): the generator object; its body has not
\* started
CallStream(file) ==
    /\ Idle
    /\ Len(runs) < MaxRuns
    /\ runs' = Append(runs, NewRun("stream", file))
    /\ UNCHANGED <<agent_logger, loggers, end_marker, risks, compliance, score,
                 rule_vars, store_vars, kb, stage>>

step_event(node) ==
    [type |-> "step", step |-> node_names[node], message |-> <<"zheng_zai_zhi_xing">>]

\* the progress event of a node, from the state its chunk carries; parse
\* has none
progress_event(node, st) ==
    [type |-> "progress", step |-> node_names[node],
     message |->
        CASE node = "retrieve_knowledge" -> <<"knowledge", Len(st.knowledge_context)>>
          [] node = "check_compliance" -> <<"compliance", Len(st.compliance)>>
          [] node = "identify_risks" ->
                <<"risks", Len(st.risks), Len(Filter(st.risks, IsHigh))>>
          [] node = "generate_summary" -> <<"summary_done">>
          [] node = "calculate_score" -> <<"score", st.score>>
          [] OTHER -> <<>>]

has_progress(node) == node # "parse"

\* an except branch that ends the generator without an event
stream_except_silent(run, e) == [run EXCEPT !.pc = "closing", !.error = e]

\* except Exception as e: yield the error event
stream_except(run, e) ==
    [run EXCEPT !.events = Append(@, [type |-> "error",
                                      message |-> <<"fen_xi_shi_bai", e>>]),
                !.pc = "closing", !.error = e]

\* after the loop over graph.stream: the result event, or the error event
\* when no chunk was the end marker
stream_finish(run, final_result) ==
    [run EXCEPT !.events = Append(@,
                    IF final_result # <<>>
                    THEN [type |-> "result", data |-> ResultData(final_result[1])]
                    ELSE [type |-> "error", message |-> <<"wei_huo_de_zui_zhong_jie_guo">>]),
                !.pc = "closing",
                !.result = IF final_result # <<>>
                           THEN <<ResultData(final_result[1])>> ELSE <<>>]

\* the consumer asks a stream for its next event: the generator runs from
\* where it is suspended to its next yield, or to its end
Pull(r, ok) ==
    /\ Idle
    /\ runs[r].kind = "stream"
    /\ runs[r].pc \in {"created", "extract", "graph", "progress", "closing"}
    /\ CASE runs[r].pc = "created" ->
              /\ agent_logger' = Len(loggers) + 1
              /\ loggers' = Append(loggers, NewLogger)
              /\ runs' = [runs EXCEPT ![r].logger = Len(loggers) + 1,
                             ![r].pc = "extract",
                             ![r].events = Append(@,
                                 [type |-> "step", step |-> "wen_dang_jie_xi",
                                  message |-> <<"zheng_zai_jie_xi">>])]
         [] runs[r].pc = "extract" ->
              /\ runs' = [runs EXCEPT ![r] =
                     IF ok
                     THEN [@ EXCEPT !.state = ContractState(runs[r].file),
                                    !.pc = "graph",
                                    !.events = Append(@,
                                        [type |-> "progress", step |-> "wen_dang_jie_xi",
                                         message |-> <<"parsed", Len(runs[r].file)>>])]
                     ELSE stream_except(@, "ExtractionError")]
              /\ UNCHANGED <<agent_logger, loggers>>
         [] runs[r].pc = "graph" /\ runs[r].next = END ->
              /\ runs' = [runs EXCEPT ![r] =
                     stream_finish(@, IF end_marker THEN <<runs[r].state>> ELSE <<>>)]
              /\ UNCHANGED <<agent_logger, loggers>>
         [] runs[r].pc = "graph" /\ runs[r].next # END ->
              \E out \in {Node(runs[r].next, runs[r].state, Lg, r, ok)} :
                  /\ loggers' = SetLg(out.lg)
                  /\ runs' = [runs EXCEPT ![r] =
                         IF out.error # None
                         THEN stream_except(RunNode(@, out), out.error)
                         ELSE [RunNode(@, out) EXCEPT
                                  !.events = Append(@, step_event(runs[r].next)),
                                  !.pc = IF has_progress(runs[r].next)
                                         THEN "progress" ELSE "graph"]]
                  /\ UNCHANGED agent_logger
         [] runs[r].pc = "progress" ->
              LET node == runs[r].executed[Len(runs[r].executed)]
              IN  /\ runs' = [runs EXCEPT ![r].events =
                                 Append(@, progress_event(node, runs[r].state)),
                             ![r].pc = "graph"]
                  /\ UNCHANGED <<agent_logger, loggers>>
         [] runs[r].pc = "closing" ->
              /\ runs' = [runs EXCEPT ![r].pc = "exhausted"]
              /\ UNCHANGED <<agent_logger, loggers>>
    /\ UNCHANGED <<end_marker, risks, compliance, score,
                 rule_vars, store_vars, kb, stage>>

-----------------------------------------------------------------------------
(* The parts of the state a specification does not use stay as they are     *)
(* when the process starts.                                                 *)

\* a file that does not exist
NoFile == [state |-> "missing", content |-> <<>>]

NoDisk == [faiss |-> NoFile, pkl |-> NoFile]

NoOutcome ==
    [op |-> "none", error |-> None, results |-> <<>>, query |-> <<>>, k |-> 0,
     dim |-> 0]

NoHist == [saved |-> EmptyStore, fresh |-> FALSE]

NoSearch == [op |-> "none", query |-> <<>>, category |-> None, results |-> <<>>]

AgentRest == agent_logger = 0 /\ loggers = <<>> /\ runs = <<>> /\ end_marker = FALSE

ScoreRest == risks = <<>> /\ compliance = <<>> /\ score = 0

RuleRest == checker_rules = Rules /\ review_text = <<>> /\ calls = <<>> /\ returned = <<>>

StoreRest == vstore = EmptyStore /\ disk = NoDisk /\ outcome = NoOutcome /\ hist = NoHist

KbRest == kb = NoSearch

NoStage ==
    [node |-> "none", input |-> ContractState(<<>>), n |-> 0,
     traced |-> Returned(ContractState(<<>>), NewLogger),
     plain |-> Returned(ContractState(<<>>), NoLogger)]

StageRest == stage = NoStage

-----------------------------------------------------------------------------
(* The specification of the agent *)

Init ==
    /\ agent_logger = 0
    /\ loggers = <<>>
    /\ runs = <<>>
    /\ end_marker \in BOOLEAN
    /\ risks = <<>>
    /\ compliance = <<>>
    /\ score = 0
    /\ RuleRest
    /\ StoreRest
    /\ KbRest
    /\ StageRest

Next ==
    \/ \E file \in Files, ok \in BOOLEAN : CallAnalyze(file, ok)
    \/ \E file \in Files, ok \in BOOLEAN : CallTrace(file, ok)
    \/ \E file \in Files : CallStream(file)
    \/ \E r \in 1..Len(runs), ok \in BOOLEAN : InvokeStep(r, ok)
    \/ \E r \in 1..Len(runs), ok \in BOOLEAN : TraceStep(r, ok)
    \/ \E r \in 1..Len(runs), ok \in BOOLEAN : Pull(r, ok)

Spec == Init /\ [][Next]_vars

-----------------------------------------------------------------------------
(* Properties of the pipeline *)

StageOrder ==
    <<"parse", "retrieve_knowledge", "check_compliance", "identify_risks",
      "generate_summary", "calculate_score">>

\* the step_id each stage opens in the logger
StepIds == <<"parse", "retrieve", "compliance", "risks", "summary", "score">>

ProviderErrors ==
    {"ExtractionError", "EmbeddingProviderError", "CompletionProviderError"}

Blocking(r) == runs[r].kind \in {"analyze", "trace"}

Ended(r) == runs[r].pc \in {"returned", "raised", "closing", "exhausted"}

IsPrefix(s, t) == Len(s) <= Len(t) /\ s = SubSeq(t, 1, Len(s))

\* the stage events call r has put in the trace it made
StageSteps(r) ==
    IF runs[r].logger = 0 THEN <<>>
    ELSE SelectSeq(loggers[runs[r].logger].steps,
                   LAMBDA st : st.run = r /\ \E i \in 1..6 : st.step_id = StepIds[i])

C2_AnalyzeReturnsResult ==
    \A r \in 1..Len(runs) :
        runs[r].kind = "analyze" /\ Ended(r) /\ runs[r].error \notin ProviderErrors =>
            /\ runs[r].pc = "returned"
            /\ runs[r].result # <<>>
            /\ \E i \in 1..Len(StageSteps(r)) :
                  /\ StageSteps(r)[i].step_id = "summary"
                  /\ StageSteps(r)[i].status = "COMPLETED"

\* C3: when a stage raises in a blocking call, the stages run are a prefix
\* of the declared order ending in that stage (none runs after it), its
\* trace event is FAILED with the error message, and the events of the
\* stages before it are COMPLETED.
C3_FailedStageStopsRun ==
    \A r \in 1..Len(runs) :
        Blocking(r) /\ runs[r].error # None /\ runs[r].executed # <<>> =>
            LET n == Len(runs[r].executed)
                tr == StageSteps(r)
            IN  /\ IsPrefix(runs[r].executed, StageOrder)
                /\ Len(tr) = n
                /\ \A i \in 1..n : tr[i].step_id = StepIds[i]
                /\ tr[n].status = "FAILED"
                /\ tr[n].error = runs[r].error
                /\ \A i \in 1..(n - 1) : tr[i].status = "COMPLETED" /\ tr[i].error = None

\* analyze failed in its fourth stage
C3_Witness ==
    \E r \in 1..Len(runs) :
        /\ runs[r].kind = "analyze"
        /\ runs[r].pc = "raised"
        /\ runs[r].error = "EmbeddingProviderError"
        /\ Len(runs[r].executed) = 4

\* C4: a blocking call that fails gives its caller no result; when it
\* fails the agent's logger is the trace the call made, holding an event
\* for every stage it ran, the failing one included; and those events stay
\* in that trace afterwards.
C4_NoResultTraceKept ==
    [][\A r \in 1..Len(runs') :
          Blocking(r)' /\ runs'[r].error # None =>
              /\ runs'[r].result = <<>>
              /\ runs'[r].pc = "raised"
              /\ IF r <= Len(runs) /\ runs[r].error # None
                 THEN StageSteps(r)' = StageSteps(r)
                 ELSE /\ agent_logger' = runs'[r].logger
                      /\ Len(StageSteps(r)') = Len(runs'[r].executed)
                      /\ loggers'[agent_logger'].steps # <<>>
                      /\ \E i \in 1..Len(loggers'[agent_logger'].steps) :
                            /\ loggers'[agent_logger'].steps[i].status = "FAILED"
                            /\ loggers'[agent_logger'].steps[i].error = runs'[r].error]_vars

\* analyze_contract_with_trace failed in generate_summary
C4_Witness ==
    \E r \in 1..Len(runs) :
        /\ runs[r].kind = "trace"
        /\ runs[r].pc = "raised"
        /\ runs[r].error = "TypeError"
        /\ Len(runs[r].executed) = 5
        /\ agent_logger = runs[r].logger

\* graph.invoke(initial_state) with every provider answering: the state a
\* blocking call returns from, or the exception it ends with
RECURSIVE invoke(_, _)
invoke(state, node) ==
    IF node = END THEN [state |-> state, error |-> None]
    ELSE LET out == Node(node, state, NoLogger, 0, TRUE)
         IN  IF out.error # None THEN [state |-> out.state, error |-> out.error]
             ELSE invoke(out.state, Successor(node))

Streamed(r) == runs[r].kind = "stream"

StreamEnded(r) == runs[r].pc \in {"closing", "exhausted"}

\* the display names of the stage events a stream has yielded, after the
\* two events of text extraction
StageEventNames(r) ==
    LET ev == runs[r].events
        graph_events == IF Len(ev) <= 2 THEN <<>> ELSE SubSeq(ev, 3, Len(ev))
        steps == SelectSeq(graph_events, LAMBDA e : e.type = "step")
    IN  [i \in 1..Len(steps) |-> steps[i].step]

IsTerminal(e) == e.type \in {"result", "error"}

\* C6: the events of a stream are at most two for extraction, two per
\* stage and one terminal event; a terminal event is there exactly when
\* the generator has ended, it is the only one and the last event; a
\* failed extraction or stage ends the stream with the error event of that
\* failure, a result event only follows six stages without a failure; and
\* a stream never ends by raising.
C6_StreamEndsOnce ==
    \A r \in 1..Len(runs) :
        Streamed(r) =>
            LET ev == runs[r].events
                terminals == {i \in 1..Len(ev) : IsTerminal(ev[i])}
            IN  /\ Len(ev) <= 2 + 2 * Len(StageOrder)
                /\ Cardinality(terminals) <= 1
                /\ terminals \subseteq {Len(ev)}
                /\ StreamEnded(r) <=> terminals # {}
                /\ runs[r].pc # "raised"
                /\ runs[r].error # None =>
                      /\ StreamEnded(r)
                      /\ ev[Len(ev)].type = "error"
                      /\ ev[Len(ev)].message = <<"fen_xi_shi_bai", runs[r].error>>
                /\ \A i \in terminals :
                      ev[i].type = "result" =>
                          runs[r].error = None /\ runs[r].executed = StageOrder

\* a stream whose third stage failed has been read to its end
C6_Witness ==
    \E r \in 1..Len(runs) :
        /\ Streamed(r)
        /\ runs[r].pc = "exhausted"
        /\ runs[r].error = "EmbeddingProviderError"
        /\ Len(runs[r].executed) = 3
        /\ runs[r].events[Len(runs[r].events)].type = "error"

\* the events a stream yields before it runs the stage after stages: two
\* for extraction, one for parse, two for every other stage
RECURSIVE EventsDue(_)
EventsDue(stages) ==
    IF stages = <<>> THEN 2
    ELSE EventsDue(Tail(stages)) + (IF Head(stages) = "parse" THEN 1 ELSE 2)

\* C7: a step in which a stream runs a stage is a pull of that stream's
\* consumer (it hands over exactly one more event), it runs one stage, and
\* it happens only when every event of the stages run before has been
\* handed over; without a pull no stage of the stream runs.
C7_ConsumerDriven ==
    [][\A r \in 1..Len(runs) :
          Streamed(r) /\ runs'[r].executed # runs[r].executed =>
              /\ Len(runs'[r].executed) = Len(runs[r].executed) + 1
              /\ Len(runs'[r].events) = Len(runs[r].events) + 1
              /\ Len(runs[r].events) = EventsDue(runs[r].executed)]_vars

\* a stream has run three stages and all seven events of them have been
\* pulled; the fourth stage has not run
C7_Witness ==
    \E r \in 1..Len(runs) :
        /\ Streamed(r)
        /\ Len(runs[r].executed) = 3
        /\ runs[r].pc = "graph"
        /\ Len(runs[r].events) = 7

\* C8: every event in a trace was opened by a stage of the call that made
\* that trace.
C8_TraceOwnEvents ==
    \A r \in 1..Len(runs) :
        runs[r].logger # 0 =>
            \A i \in 1..Len(loggers[runs[r].logger].steps) :
                loggers[runs[r].logger].steps[i].run = r

-----------------------------------------------------------------------------
(* The score on its own: calculate_risk_score applied to every list of     *)
(* risks and of compliance entries within the bounds, grown one entry or   *)
(* one severity level at a time.                                           *)

Severities == {"low", "medium", "high"}

RiskItems ==
    {[clause |-> "dai_ding_wei", issue |-> <<"clause">>, severity |-> sev] :
        sev \in Severities}

\* a missing item, a present item, a guidance line, and a present item and
\* a guidance line that carry the marker inside
ComplianceEntries ==
    {QueShao \o <<"parties">>, <<"parties">> \o WanZheng,
     CanKao \o <<"elements">>, <<"note", "que_shao", "fee">> \o WanZheng,
     CanKao \o <<"if", "que_shao", "annex">>}

Raised_severity(sev) == IF sev = "low" THEN "medium" ELSE "high"

InitScore ==
    /\ agent_logger = 0
    /\ loggers = <<>>
    /\ runs = <<>>
    /\ end_marker = FALSE
    /\ risks = <<>>
    /\ compliance = <<>>
    /\ score = calculate_risk_score(<<>>, <<>>)
    /\ RuleRest
    /\ StoreRest
    /\ KbRest
    /\ StageRest

AddRisk(item) ==
    /\ Len(risks) < MaxRisks
    /\ risks' = Append(risks, item)
    /\ score' = calculate_risk_score(risks', compliance)
    /\ UNCHANGED <<agent_logger, loggers, runs, end_marker, compliance,
                 rule_vars, store_vars, kb, stage>>

RaiseSeverity(i) ==
    /\ risks[i].severity # "high"
    /\ risks' = [risks EXCEPT ![i].severity = Raised_severity(@)]
    /\ score' = calculate_risk_score(risks', compliance)
    /\ UNCHANGED <<agent_logger, loggers, runs, end_marker, compliance,
                 rule_vars, store_vars, kb, stage>>

AddComplianceEntry(c) ==
    /\ Len(compliance) < MaxCompliance
    /\ compliance' = Append(compliance, c)
    /\ score' = calculate_risk_score(risks, compliance')
    /\ UNCHANGED <<agent_logger, loggers, runs, end_marker, risks,
                 rule_vars, store_vars, kb, stage>>

NextScore ==
    \/ \E item \in RiskItems : AddRisk(item)
    \/ \E i \in 1..Len(risks) : RaiseSeverity(i)
    \/ \E c \in ComplianceEntries : AddComplianceEntry(c)

SpecScore == InitScore /\ [][NextScore]_vars

-----------------------------------------------------------------------------
(* Properties of the score *)

RECURSIVE CountSeverity(_, _)
CountSeverity(rs, sev) ==
    IF rs = <<>> THEN 0
    ELSE (IF Head(rs).severity = sev THEN 1 ELSE 0) + CountSeverity(Tail(rs), sev)

\* the entries that carry the missing marker
RECURSIVE CountMissing(_)
CountMissing(cs) ==
    IF cs = <<>> THEN 0
    ELSE (IF \E i \in 1..Len(Head(cs)) : Head(cs)[i] = "que_shao" THEN 1 ELSE 0)
         + CountMissing(Tail(cs))

\* C9: for every list of risks and every list of compliance entries the
\* score is max(10 - min(3*#high + 2*#medium + 2*#missing, 8), 1), where
\* #missing counts the entries that carry the missing marker; low risks
\* add nothing, and the score is an integer from 1 to 10.
C9_ScoreFormula ==
    LET p == 3 * CountSeverity(risks, "high") + 2 * CountSeverity(risks, "medium")
             + 2 * CountMissing(compliance)
        capped == IF p < 8 THEN p ELSE 8
    IN  /\ score = (IF 10 - capped > 1 THEN 10 - capped ELSE 1)
        /\ score \in 1..10

\* a low, a high and a missing item have been scored: 10 - (3 + 2)
C9_Witness ==
    /\ CountSeverity(risks, "low") = 1
    /\ CountSeverity(risks, "high") = 1
    /\ CountSeverity(risks, "medium") = 0
    /\ CountMissing(compliance) = 1
    /\ score = 5

\* the entries check_compliance makes for a missing item: the marker, then
\* the name of the rule
RECURSIVE CountMissingForm(_)
CountMissingForm(cs) ==
    IF cs = <<>> THEN 0
    ELSE (IF Prefix(Head(cs), 1) = QueShao THEN 1 ELSE 0)
         + CountMissingForm(Tail(cs))

\* C25: the compliance term of the score counts the entries of the missing
\* form only; a present item or a guidance line adds nothing, whatever
\* the name of the rule or the guidance text holds.
C25_GapsAreMissingEntries ==
    LET p == 3 * CountSeverity(risks, "high") + 2 * CountSeverity(risks, "medium")
             + 2 * CountMissingForm(compliance)
    IN  score = Max(10 - Min(p, 8), 1)

\* C10: adding a risk of any severity, raising a risk's severity (low to
\* medium, medium to high) or adding a compliance entry, missing ones
\* included, never increases the score.
C10_ScoreMonotone == [][score' <= score]_vars

\* a medium risk was raised to high, or a high one added, beside a missing
\* item: the score went down to 5 and the next addition is still possible
C10_Witness ==
    /\ Len(risks) = 1
    /\ risks[1].severity = "high"
    /\ CountMissing(compliance) = 1
    /\ score = 5

-----------------------------------------------------------------------------
(* The rule engine on its own: a rule set loaded once, a text, and calls   *)
(* of check_compliance, identify_risks and calculate_risk_score on it, in  *)
(* any order, with the compliance stage extending the list it was given.   *)

MaxTextLen == 2     \* tokens of a text under review
MaxCalls == 3       \* calls made on one rule set and text

Tokens == {"party", "buyer", "penalty", "price", "terminate", "other"}

Texts == UNION {[1..n -> Tokens] : n \in 0..MaxTextLen}

\* the rule sets a rules file may hold: each check required or not, and
\* possibly a second pattern for a keyword another pattern has
RuleSets ==
    {[compliance_checks |->
          [i \in 1..Len(Rules.compliance_checks) |->
              [Rules.compliance_checks[i] EXCEPT !.required = req[i]]],
      risk_patterns |-> Rules.risk_patterns \o extra] :
        req \in [1..Len(Rules.compliance_checks) -> BOOLEAN],
        extra \in {<<>>, <<[name |-> <<"late_fee">>,
                            keywords |-> <<<<"penalty">>, <<"price">>>>,
                            severity |-> "high"]>>}}

InitRules ==
    /\ checker_rules \in RuleSets
    /\ review_text \in Texts
    /\ calls = <<>>
    /\ returned = <<>>
    /\ AgentRest
    /\ ScoreRest
    /\ StoreRest
    /\ KbRest
    /\ StageRest

Called(fn, args, out) ==
    /\ Len(calls) < MaxCalls
    /\ calls' = Append(calls, [fn |-> fn, args |-> args, out |-> out])
    /\ UNCHANGED <<checker_rules, review_text>>
    /\ UNCHANGED <<agent_logger, loggers, runs, end_marker, risks, compliance,
                   score, store_vars, kb, stage>>

\* compliance = self.checker.check_compliance(state["text"])
CallCheckCompliance ==
    LET out == results_list(returned)
               \o ComplianceOf(checker_rules.compliance_checks, review_text)
    IN  /\ Called("check_compliance", <<review_text>>, out)
        /\ returned' = out

\* compliance.extend(guidance): the list check_compliance returned grows
ExtendWithGuidance ==
    /\ \E i \in 1..Len(calls) : calls[i].fn = "check_compliance"
    /\ returned' = returned \o get_compliance_guidance(review_text)
    /\ Called("extend", <<>>, returned')

\* risks = self.checker.identify_risks(state["text"])
CallIdentifyRisks ==
    /\ Called("identify_risks", <<review_text>>,
              RisksOf(checker_rules.risk_patterns, review_text))
    /\ UNCHANGED returned

\* calculate_risk_score(state["risks"], state["compliance"])
CallScore ==
    LET found_risks == RisksOf(checker_rules.risk_patterns, review_text)
    IN  /\ Called("calculate_risk_score", <<found_risks, returned>>,
                  calculate_risk_score(found_risks, returned))
        /\ UNCHANGED returned

NextRules ==
    \/ CallCheckCompliance
    \/ ExtendWithGuidance
    \/ CallIdentifyRisks
    \/ CallScore

SpecRules == InitRules /\ [][NextRules]_vars


-----------------------------------------------------------------------------
(* Properties of the rule engine *)

\* some keyword of the list occurs in the text
Occurs(keywords, t) ==
    \E i \in 1..Len(keywords) : \E a, b \in 1..Len(t) : SubSeq(t, a, b) = keywords[i]

CallsOf(fn) == {i \in 1..Len(calls) : calls[i].fn = fn}

\* C11: check_compliance returns one entry per required rule, in rule
\* order: the present form if a keyword of the rule occurs in the text, the
\* missing form if none does; a rule that is not required has no entry.
C11_OneEntryPerRequiredRule ==
    \A c \in CallsOf("check_compliance") :
        LET required == SelectSeq(checker_rules.compliance_checks,
                                  LAMBDA check : check.required)
        IN  /\ Len(calls[c].out) = Len(required)
            /\ \A i \in 1..Len(required) :
                  calls[c].out[i] =
                      IF Occurs(required[i].keywords, review_text)
                      THEN required[i].name \o <<"wan_zheng">>
                      ELSE <<"que_shao">> \o required[i].name

\* the text has the keyword of the rule that is not required and lacks the
\* keyword of a required one: one present entry, one missing entry
C11_Witness ==
    /\ review_text = <<"party", "price">>
    /\ checker_rules.compliance_checks[1].required
    /\ checker_rules.compliance_checks[2].required
    /\ ~checker_rules.compliance_checks[3].required
    /\ \E c \in CallsOf("check_compliance") :
          calls[c].out = << <<"parties", "wan_zheng">>, <<"que_shao", "liability">> >>

\* C12: identify_risks returns one item, with the pattern's name as issue
\* and the pattern's severity, for every pattern with a keyword in the
\* text, in pattern order; two patterns matching the same keyword give two
\* items, a pattern without a match gives none.
C12_OneItemPerMatchingPattern ==
    \A c \in CallsOf("identify_risks") :
        LET matching == SelectSeq(checker_rules.risk_patterns,
                                  LAMBDA p : Occurs(p.keywords, review_text))
        IN  /\ Len(calls[c].out) = Len(matching)
            /\ \A i \in 1..Len(matching) :
                  /\ calls[c].out[i].issue = matching[i].name
                  /\ calls[c].out[i].severity = matching[i].severity

\* two patterns match the one keyword of the text: two items
C12_Witness ==
    /\ review_text = <<"penalty", "other">>
    /\ Len(checker_rules.risk_patterns) = 4
    /\ \E c \in CallsOf("identify_risks") :
          /\ Len(calls[c].out) = 2
          /\ calls[c].out[1].issue = <<"high_penalty">>
          /\ calls[c].out[2].issue = <<"late_fee">>

\* C13: two calls of the same function on the same arguments return the
\* same value, whatever was called between them and although the
\* compliance stage extends the list it was given; no call changes the
\* rule set.
C13_PureFunctions ==
    [][/\ checker_rules' = checker_rules
       /\ \A i, j \in 1..Len(calls') :
             (calls'[i].fn = calls'[j].fn /\ calls'[i].fn # "extend"
              /\ calls'[i].args = calls'[j].args)
                 => calls'[i].out = calls'[j].out]_vars

\* check_compliance was called, the list it returned was extended with
\* guidance, and check_compliance was called again
C13_Witness ==
    /\ Len(calls) = 3
    /\ calls[1].fn = "check_compliance"
    /\ calls[2].fn = "extend"
    /\ Len(calls[2].out) > Len(calls[1].out)
    /\ calls[3].fn = "check_compliance"


-----------------------------------------------------------------------------
(* The vector store on its own: documents added, searches, and the store   *)
(* saved to and loaded from its two files, which may be lost or damaged    *)
(* in between.  The embedding model answers with vectors of its own        *)
(* dimension.                                                              *)

MaxDocs == 3        \* chunks held by the store
MaxK == 3           \* the k of a search

EmbeddingModels == {"small", "large"}

\* embed_documents / embed_query of the configured model
embed_with(model, t) ==
    IF model = "small" THEN embed_query(t) ELSE embed_query(t) \o <<Len(t)>>

DocTexts == {<<"elements">>, <<"penalty_rule">>}

Queries == {<<"party">>, <<"price">>}

\* an add that extends the two lists before the index takes the vectors
add_documents_call_lists_first(st, texts, metadatas, model) ==
    LET cm == ChunksOf(texts, metadatas, 1)
        chunks == [i \in 1..Len(cm) |-> cm[i].chunk]
        chunk_metadata == [i \in 1..Len(cm) |-> cm[i].meta]
        embeddings_array == [i \in 1..Len(chunks) |-> embed_with(model, chunks[i])]
        grown == [st EXCEPT !.documents = @ \o chunks,
                            !.metadata = @ \o chunk_metadata]
    IN  IF chunks = <<>> THEN [store |-> st, error |-> "IndexError"]
        ELSE IF ~st.index.is_none /\ Len(embeddings_array[1]) # st.index.d
        THEN [store |-> grown, error |-> "AssertionError"]
        ELSE [store |-> [grown EXCEPT !.index =
                            [is_none |-> FALSE, d |-> Len(embeddings_array[1]),
                             vecs |-> st.index.vecs \o embeddings_array]],
              error |-> None]

\* add_documents with the exceptions it can end with: shape[1] of an empty
\* array, and index.add refusing vectors of another dimension
add_documents_call(st, texts, metadatas, model) ==
    LET cm == ChunksOf(texts, metadatas, 1)
        chunks == [i \in 1..Len(cm) |-> cm[i].chunk]
        chunk_metadata == [i \in 1..Len(cm) |-> cm[i].meta]
        embeddings_array == [i \in 1..Len(chunks) |-> embed_with(model, chunks[i])]
    IN  IF chunks = <<>>
        THEN [store |-> st,
              error |-> IF st.index.is_none THEN "IndexError" ELSE "ValueError"]
        ELSE LET index == IF st.index.is_none
                          THEN [is_none |-> FALSE, d |-> Len(embeddings_array[1]),
                                vecs |-> <<>>]
                          ELSE st.index
             IN  IF \E i \in 1..Len(embeddings_array) :
                        Len(embeddings_array[i]) # index.d
                 THEN [store |-> [st EXCEPT !.index = index],
                       error |-> "AssertionError"]
                 ELSE [store |-> [index |-> [index EXCEPT !.vecs = @ \o embeddings_array],
                                  documents |-> st.documents \o chunks,
                                  metadata |-> st.metadata \o chunk_metadata],
                       error |-> None]

\* similarity_search past the test of self.index: the query embedded and
\* looked up, with the exceptions that can end it
search_index(st, query, k, model) ==
    IF Len(embed_with(model, query)) # st.index.d
    THEN [results |-> <<>>, error |-> "AssertionError"]
    ELSE LET found == index_search(st.index, embed_with(model, query), k)
             n == Len(st.documents)
             hit(f) == f.idx < n
             result(f) == [content |-> PyIndex(st.documents, f.idx),
                           metadata |-> PyIndex(st.metadata, f.idx),
                           score |-> f.score]
         IN  IF \E p \in 1..Len(found) : hit(found[p]) /\ found[p].idx < 0 - n
             THEN [results |-> <<>>, error |-> "IndexError"]
             ELSE [results |-> Map(Filter(found, hit), result), error |-> None]

\* a search that embeds the query before it looks at self.index
similarity_search_call_embed_first(st, query, k, model, embed_ok) ==
    IF ~embed_ok THEN [results |-> <<>>, error |-> "EmbeddingProviderError"]
    ELSE IF st.index.is_none THEN [results |-> <<>>, error |-> None]
    ELSE search_index(st, query, k, model)

\* similarity_search, the embedding provider answering or not
similarity_search_call(st, query, k, model, embed_ok) ==
    IF st.index.is_none THEN [results |-> <<>>, error |-> None]
    ELSE IF ~embed_ok THEN [results |-> <<>>, error |-> "EmbeddingProviderError"]
    ELSE search_index(st, query, k, model)

\* a file as written
File(content) == [state |-> "ok", content |-> <<content>>]

\* save: write_index, then the pickle of the two lists.  write_index of
\* no index raises, having created an unreadable file or not (truncates)
save_call(st, dk, truncates) ==
    IF st.index.is_none
    THEN [disk |-> IF truncates
                   THEN [dk EXCEPT !.faiss = [state |-> "corrupt", content |-> <<>>]]
                   ELSE dk,
          error |-> "WriteIndexError"]
    ELSE [disk |-> [faiss |-> File(st.index),
                    pkl |-> File([documents |-> st.documents,
                                  metadata |-> st.metadata])],
          error |-> None]

\* load: nothing when <path>.faiss is not there; else the index is read
\* and assigned, then the pickle is opened, read and assigned
load_call(st, dk) ==
    IF dk.faiss.state = "missing" THEN [store |-> st, error |-> None]
    ELSE IF dk.faiss.state = "corrupt"
    THEN [store |-> st, error |-> "ReadIndexError"]
    ELSE LET with_index == [st EXCEPT !.index = dk.faiss.content[1]]
         IN  IF dk.pkl.state = "missing"
             THEN [store |-> with_index, error |-> "FileNotFoundError"]
             ELSE IF dk.pkl.state = "corrupt"
             THEN [store |-> with_index, error |-> "UnpicklingError"]
             ELSE [store |-> [with_index EXCEPT
                                 !.documents = dk.pkl.content[1].documents,
                                 !.metadata = dk.pkl.content[1].metadata],
                   error |-> None]

InitStore ==
    /\ vstore = EmptyStore
    /\ disk = NoDisk
    /\ outcome = NoOutcome
    /\ hist = NoHist
    /\ AgentRest
    /\ ScoreRest
    /\ RuleRest
    /\ KbRest
    /\ StageRest

Outcome(op, error, results, query, k, dim) ==
    /\ outcome' = [op |-> op, error |-> error, results |-> results,
                   query |-> query, k |-> k, dim |-> dim]
    /\ UNCHANGED <<agent_logger, loggers, runs, end_marker, risks, compliance,
                   score, rule_vars, kb, stage>>

AddDocuments(texts, model) ==
    /\ Len(vstore.documents) + Len(texts) <= MaxDocs
    /\ Len(vstore.index.vecs) + Len(texts) <= MaxDocs
    /\ \E out \in {add_documents_call(vstore, texts, <<>>, model)} :
          /\ vstore' = out.store
          /\ Outcome("add", out.error, <<>>, <<>>, 0,
                     IF texts = <<>> THEN 0 ELSE Len(embed_with(model, texts[1])))
    /\ UNCHANGED <<disk, hist>>

Search(query, k, model, embed_ok) ==
    /\ \E out \in {similarity_search_call(vstore, query, k, model, embed_ok)} :
          Outcome("search", out.error, out.results, query, k,
                  Len(embed_with(model, query)))
    /\ UNCHANGED <<vstore, disk, hist>>

Save(truncates) ==
    /\ \E out \in {save_call(vstore, disk, truncates)} :
          /\ disk' = out.disk
          /\ Outcome("save", out.error, <<>>, <<>>, 0, 0)
    /\ hist' = [saved |-> vstore, fresh |-> TRUE]
    /\ UNCHANGED vstore

Load ==
    /\ \E out \in {load_call(vstore, disk)} :
          /\ vstore' = out.store
          /\ Outcome("load", out.error, <<>>, <<>>, 0, 0)
    /\ UNCHANGED <<disk, hist>>

\* one of the two files is lost or damaged
Damage(part, how) ==
    /\ disk[part].state = "ok"
    /\ disk' = [disk EXCEPT ![part] = [state |-> how, content |-> <<>>]]
    /\ hist' = [hist EXCEPT !.fresh = FALSE]
    /\ Outcome("damage", None, <<>>, <<>>, 0, 0)
    /\ UNCHANGED vstore

NextStore ==
    \/ \E texts \in {<<>>} \cup {<<t>> : t \in DocTexts}, model \in EmbeddingModels :
          AddDocuments(texts, model)
    \/ \E query \in Queries, k \in 1..MaxK, model \in EmbeddingModels,
          embed_ok \in BOOLEAN : Search(query, k, model, embed_ok)
    \/ \E truncates \in BOOLEAN : Save(truncates)
    \/ Load
    \/ \E part \in {"faiss", "pkl"}, how \in {"missing", "corrupt"} :
          Damage(part, how)

SpecStore == InitStore /\ [][NextStore]_vars


-----------------------------------------------------------------------------
(* Properties of the vector store *)

\* the index and the two lists describe the same documents
Coherent(st) ==
    /\ Len(st.index.vecs) = Len(st.documents)
    /\ Len(st.metadata) = Len(st.documents)

Searched == outcome.op = "search" /\ outcome.error = None /\ Coherent(vstore)

\* how many entries of the sequence have this content
RECURSIVE Times(_, _)
Times(seq, content) ==
    IF seq = <<>> THEN 0
    ELSE (IF Head(seq) = content THEN 1 ELSE 0) + Times(Tail(seq), content)

\* C14: a search for k on a store of n < k documents returns n results,
\* each stored document once.
C14_FewerThanKReturnsAll ==
    Searched /\ Len(vstore.documents) < outcome.k =>
        /\ Len(outcome.results) = Len(vstore.documents)
        /\ \A i \in 1..Len(vstore.documents) :
              Times([p \in 1..Len(outcome.results) |-> outcome.results[p].content],
                    vstore.documents[i])
                  = Times(vstore.documents, vstore.documents[i])

\* C15: the results of a search are min(k, n) stored documents, each with
\* the inner product of its embedding and the query's as score, in order
\* of non-increasing score, and no document left out has a higher score
\* than one returned.
C15_ExactTopK ==
    Searched =>
        LET n == Len(vstore.documents)
            res == outcome.results
            m == IF outcome.k < n THEN outcome.k ELSE n
            q == IF outcome.dim = 2 THEN embed_with("small", outcome.query)
                 ELSE embed_with("large", outcome.query)
            ip(i) == Dot(q, vstore.index.vecs[i])
        IN  /\ Len(res) = m
            /\ \A p \in 1..(Len(res) - 1) : res[p].score >= res[p + 1].score
            /\ \E f \in [1..m -> 1..n] :
                  /\ \A a, b \in 1..m : a # b => f[a] # f[b]
                  /\ \A a \in 1..m :
                        /\ res[a].content = vstore.documents[f[a]]
                        /\ res[a].metadata = vstore.metadata[f[a]]
                        /\ res[a].score = ip(f[a])
                  /\ \A j \in 1..n :
                        (\A a \in 1..m : f[a] # j) =>
                            \A a \in 1..m : ip(j) <= res[a].score

\* C16: a search on a store to which nothing has been added returns the
\* empty sequence and does not raise, whether or not the embedding
\* provider answers.
C16_EmptyStoreSearch ==
    outcome.op = "search" /\ vstore.index.is_none =>
        outcome.error = None /\ outcome.results = <<>>

\* a search for three on the store as it is constructed
C16_Witness ==
    /\ outcome.op = "search"
    /\ outcome.k = 3
    /\ vstore = EmptyStore

\* C17: the first add fixes the dimension of the index and every stored
\* embedding has it; an add of embeddings of another dimension to an index
\* that exists fails and leaves index, documents and metadata as they were.
C17_DimensionFixed ==
    [][outcome'.op = "add" =>
          /\ \A i \in 1..Len(vstore'.index.vecs) :
                Len(vstore'.index.vecs[i]) = vstore'.index.d
          /\ ~vstore.index.is_none => vstore'.index.d = vstore.index.d
          /\ (vstore.index.is_none /\ outcome'.error = None) =>
                vstore'.index.d = outcome'.dim
          /\ (~vstore.index.is_none /\ outcome'.dim # 0
              /\ outcome'.dim # vstore.index.d) =>
                outcome'.error # None /\ vstore' = vstore]_vars

\* an add of three-dimensional embeddings to an index of dimension two
\* holding two documents has failed
C17_Witness ==
    /\ outcome.op = "add"
    /\ outcome.error = "AssertionError"
    /\ outcome.dim = 3
    /\ vstore.index.d = 2
    /\ Len(vstore.documents) = 2
    /\ Coherent(vstore)

\* the two files hold a whole snapshot
SnapshotWhole(dk) == dk.faiss.state = "ok" /\ dk.pkl.state = "ok"

\* C18: a load either takes index, documents and metadata from the
\* snapshot, when both files are whole, or fails and leaves the store as
\* it was.
C18_RestoreAllOrNothing ==
    [][outcome'.op = "load" =>
          IF SnapshotWhole(disk)
          THEN /\ outcome'.error = None
               /\ vstore' = [index |-> disk.faiss.content[1],
                             documents |-> disk.pkl.content[1].documents,
                             metadata |-> disk.pkl.content[1].metadata]
          ELSE outcome'.error # None /\ vstore' = vstore]_vars

\* C19: a save succeeds on every store, the one nothing was added to
\* included, and a load of what it wrote gives a store with the same
\* index, documents and metadata, answering every search alike.
C19_SaveLoadRoundTrip ==
    /\ outcome.op = "save" => outcome.error = None
    /\ outcome.op = "load" /\ hist.fresh =>
          /\ outcome.error = None
          /\ vstore = hist.saved
          /\ \A query \in Queries, k \in 1..MaxK :
                similarity_search_call(vstore, query, k, "small", TRUE)
                    = similarity_search_call(hist.saved, query, k, "small", TRUE)

\* C31: after every add, save and load, failed ones included, the index
\* holds as many embeddings as there are documents and metadata entries,
\* and the embedding at a position is that of the document at the position.
C31_StoreCoherent ==
    /\ Coherent(vstore)
    /\ \A i \in 1..Len(vstore.documents) :
          \E model \in EmbeddingModels :
              vstore.index.vecs[i] = embed_with(model, vstore.documents[i])


-----------------------------------------------------------------------------
(* The knowledge base on its own: searches of the seeded store *)

Categories ==
    {None, "", "feng_xian_ti_shi"} \cup
    {legal_knowledge[i].category : i \in 1..Len(legal_knowledge)}

InitKb ==
    /\ kb = NoSearch
    /\ AgentRest
    /\ ScoreRest
    /\ RuleRest
    /\ StoreRest
    /\ StageRest

\* a search leaves the seeded store as it is, so what one returns does not
\* depend on the searches before it: one search from the start
SearchRelevant(query, category) ==
    /\ kb = NoSearch
    /\ kb' = [op |-> "search", query |-> query, category |-> category,
              results |-> search_relevant_knowledge(query, category)]
    /\ UNCHANGED <<agent_logger, loggers, runs, end_marker, risks, compliance,
                   score, rule_vars, store_vars, stage>>

\* guidance = self.knowledge_base.get_compliance_guidance(state["text"])
ComplianceGuidance(query) ==
    /\ kb = NoSearch
    /\ kb' = [op |-> "guidance", query |-> query, category |-> "he_tong_jie_gou",
              results |-> get_compliance_guidance(query)]
    /\ UNCHANGED <<agent_logger, loggers, runs, end_marker, risks, compliance,
                   score, rule_vars, store_vars, stage>>

\* risk_analysis = self.knowledge_base.get_risk_analysis(state["text"])
RiskAnalysis(query) ==
    /\ kb = NoSearch
    /\ kb' = [op |-> "risk", query |-> query, category |-> "feng_xian_ti_shi",
              results |-> get_risk_analysis(query)]
    /\ UNCHANGED <<agent_logger, loggers, runs, end_marker, risks, compliance,
                   score, rule_vars, store_vars, stage>>

NextKb ==
    \/ \E query \in Texts, category \in Categories : SearchRelevant(query, category)
    \/ \E query \in Texts : ComplianceGuidance(query)
    \/ \E query \in Texts : RiskAnalysis(query)

SpecKb == InitKb /\ [][NextKb]_vars

-----------------------------------------------------------------------------
(* Properties of the knowledge base *)

\* C20: search_relevant_knowledge returns, in ranking order, the documents
\* among the three best for the query whose category is the one given, and
\* all three when no category is given (None, or the empty string, which
\* the test of the code takes for none): at most three results, possibly
\* none, never one of another category.
C20_TopThreeOfCategory ==
    kb.op = "search" =>
        LET n == Len(legal_knowledge)
            q == embed_query(kb.query)
            ip(i) == Dot(q, embed_query(legal_knowledge[i].content))
            above(i) == Cardinality({j \in 1..n :
                            ip(j) > ip(i) \/ (ip(j) = ip(i) /\ j < i)})
            given == kb.category \notin {None, ""}
            wanted == {i \in 1..n :
                          /\ above(i) < 3
                          /\ given => legal_knowledge[i].category = kb.category}
            place(i) == 1 + Cardinality({j \in wanted : above(j) < above(i)})
        IN  /\ Len(kb.results) = Cardinality(wanted)
            /\ Len(kb.results) <= 3
            /\ \A i \in wanted :
                  /\ kb.results[place(i)].content = legal_knowledge[i].content
                  /\ kb.results[place(i)].metadata.category = legal_knowledge[i].category
                  /\ kb.results[place(i)].score = ip(i)

\* one of the three best documents for the query has the category asked
\* for; the other two are left out
C20_Witness ==
    /\ kb.op = "search"
    /\ kb.query = <<"party">>
    /\ kb.category = "he_tong_jie_gou"
    /\ Len(kb.results) = 1
    /\ kb.results[1].content = <<"elements">>


\* the inner product of the query's embedding and a seeded entry's
Relevance(query, i) ==
    Dot(embed_query(query), embed_query(legal_knowledge[i].content))

\* the seeded entries among the three best for the query
TopThree(query) ==
    {i \in 1..Len(legal_knowledge) :
        Cardinality({j \in 1..Len(legal_knowledge) :
            \/ Relevance(query, j) > Relevance(query, i)
            \/ Relevance(query, j) = Relevance(query, i) /\ j < i}) < 3}

\* the place of entry i among the entries of the set, best first
PlaceIn(wanted, query, i) ==
    1 + Cardinality({j \in wanted :
            \/ Relevance(query, j) > Relevance(query, i)
            \/ Relevance(query, j) = Relevance(query, i) /\ j < i})

C22_GuidanceAboveThreshold ==
    kb.op = "guidance" =>
        LET wanted == {i \in TopThree(kb.query) :
                          /\ legal_knowledge[i].category = "he_tong_jie_gou"
                          /\ Relevance(kb.query, i) > 70}
        IN  /\ Len(kb.results) = Cardinality(wanted)
            /\ \A i \in wanted :
                  kb.results[PlaceIn(wanted, kb.query, i)]
                      = <<"can_kao">> \o legal_knowledge[i].content

\* the contract-structure entry is the best for the text with a score of
\* 0.72: one guidance line
C22_Witness ==
    /\ kb.op = "guidance"
    /\ kb.query = <<"buyer">>
    /\ kb.results = << <<"can_kao", "elements">> >>


-----------------------------------------------------------------------------
(* Properties of the trace *)

\* C23: an event is in progress with no end_time, duration or error, or
\* completed with end_time and duration and no error, or failed with all
\* three; and an event that is completed or failed keeps its status,
\* end_time, duration and error in every later step.
C23_EventLifecycle ==
    [][\A id \in 1..Len(loggers') :
          \A i \in 1..Len(loggers'[id].steps) :
              LET new == loggers'[id].steps[i]
              IN  /\ new.status \in {"IN_PROGRESS", "COMPLETED", "FAILED"}
                  /\ new.status = "IN_PROGRESS" =>
                        new.end_time = None /\ new.duration = None /\ new.error = None
                  /\ new.status = "COMPLETED" =>
                        new.end_time = "set" /\ new.duration = "set" /\ new.error = None
                  /\ new.status = "FAILED" =>
                        new.end_time = "set" /\ new.duration = "set" /\ new.error # None
                  /\ (id <= Len(loggers) /\ i <= Len(loggers[id].steps)) =>
                        LET old == loggers[id].steps[i]
                        IN  old.status # "IN_PROGRESS" =>
                                /\ new.status = old.status
                                /\ new.end_time = old.end_time
                                /\ new.duration = old.duration
                                /\ new.error = old.error]_vars

\* a trace holds completed events, then one that failed with its error,
\* and a second call has been made since
C23_Witness ==
    /\ Len(runs) = 2
    /\ \E id \in 1..Len(loggers) :
          \E i \in 1..Len(loggers[id].steps) :
              /\ loggers[id].steps[i].status = "FAILED"
              /\ loggers[id].steps[i].error = "EmbeddingProviderError"
              /\ i > 1
              /\ \A j \in 1..(i - 1) : loggers[id].steps[j].status = "COMPLETED"


\* C24: analyze_contract_with_trace on a text, with every provider
\* answering, returns the summary, risks, compliance and score of the state
\* graph.invoke leaves for analyze_contract on that text, with or without
\* the end marker among the chunks.
C24_TraceReturnsInvokeResult ==
    \A r \in 1..Len(runs) :
        runs[r].kind = "trace" /\ Ended(r) /\ runs[r].error \notin ProviderErrors =>
            LET final == invoke(ContractState(runs[r].file), EntryPoint)
            IN  /\ final.error = None
                /\ runs[r].pc = "returned"
                /\ runs[r].result = <<ResultData(final.state)>>

\* C26: when a stage raises in analyze_contract_with_trace, the trace of
\* the call holds exactly one FAILED event, the event of that stage, and
\* failed_steps of the summary is 1.
C26_OneFailedEvent ==
    \A r \in 1..Len(runs) :
        runs[r].kind = "trace" /\ runs[r].pc = "raised" /\ runs[r].executed # <<>> =>
            LET lg == loggers[runs[r].logger]
                failed == {i \in 1..Len(lg.steps) : lg.steps[i].status = "FAILED"}
            IN  /\ Cardinality(failed) = 1
                /\ \A i \in failed :
                      lg.steps[i].step_id = StepIds[Len(runs[r].executed)]
                /\ get_summary(lg).failed_steps = 1

\* C27: in every logger current_step is None exactly when no event is
\* IN_PROGRESS, and otherwise is an event that is IN_PROGRESS.
C27_CurrentStepIsOpenStep ==
    \A id \in 1..Len(loggers) :
        LET lg == loggers[id]
            open == {i \in 1..Len(lg.steps) : lg.steps[i].status = "IN_PROGRESS"}
        IN  /\ lg.current_step = 0 <=> open = {}
            /\ lg.current_step # 0 => lg.current_step \in open

\* generate_stream of the /analyze endpoint, as the types of the events it
\* has sent for a stream of the agent: start, the events of the agent's
\* generator as they come, and complete once that generator is exhausted
generate_stream(run) ==
    <<"start">>
    \o [i \in 1..Len(run.events) |-> run.events[i].type]
    \o (IF run.pc = "exhausted" THEN <<"complete">> ELSE <<>>)

\* C28: the events of /analyze hold at most one of complete and error, and
\* no complete after an error.
C28_CompleteOnlyOnSuccess ==
    \A r \in 1..Len(runs) :
        runs[r].kind = "stream" =>
            LET sse == generate_stream(runs[r])
            IN  /\ \A i, j \in 1..Len(sse) :
                      i < j => ~(sse[i] = "error" /\ sse[j] = "complete")
                /\ ~(\E i, j \in 1..Len(sse) : sse[i] = "complete" /\ sse[j] = "error")
                /\ (\E i \in 1..Len(sse) : sse[i] = "complete") =>
                      \E j \in 1..Len(sse) : sse[j] = "result"


-----------------------------------------------------------------------------
(* The stage harness: the stage methods as functions of a state.  A state  *)
(* is handed from one stage to another, in any order, and every stage is   *)
(* run on it twice: with a ProcessLogger as self.logger and with           *)
(* self.logger None.                                                        *)

MaxStages == 3      \* stages run one after another on one state

StageNodes == {StageOrder[i] : i \in 1..Len(StageOrder)}

InitStages ==
    /\ \E t \in Texts :
          stage = [NoStage EXCEPT !.input = ContractState(t),
                                  !.traced.state = ContractState(t),
                                  !.plain.state = ContractState(t)]
    /\ AgentRest
    /\ ScoreRest
    /\ RuleRest
    /\ StoreRest
    /\ KbRest

\* the node run on the state the last one returned
RunStage(node, ok) ==
    /\ stage.n < MaxStages
    /\ stage' = [node |-> node, input |-> stage.plain.state, n |-> stage.n + 1,
                 traced |-> Node(node, stage.plain.state, NewLogger, 0, ok),
                 plain |-> Node(node, stage.plain.state, NoLogger, 0, ok)]
    /\ UNCHANGED <<agent_logger, loggers, runs, end_marker, risks, compliance,
                   score, rule_vars, store_vars, kb>>

NextStages == \E node \in StageNodes, ok \in BOOLEAN : RunStage(node, ok)

SpecStages == InitStages /\ [][NextStages]_vars

-----------------------------------------------------------------------------
(* Properties of the stages *)

\* C29: a stage run with a logger and the same stage run without one, on
\* the same state with the same provider, return the same state or raise
\* the same exception; the logger alone differs, by the one event of the
\* stage.
C29_SameStateWithOrWithoutLogger ==
    stage.node # "none" =>
        /\ stage.traced.state = stage.plain.state
        /\ stage.traced.error = stage.plain.error
        /\ stage.plain.lg = NoLogger
        /\ Len(stage.traced.lg.steps) = 1

\* check_compliance has added a guidance line to the entries of the rules,
\* with and without logger
C29_Witness ==
    /\ stage.node = "check_compliance"
    /\ stage.plain.error = None
    /\ Len(stage.plain.state.compliance) > Len(check_compliance(stage.input.text))
    /\ stage.traced.lg.steps[1].status = "COMPLETED"

\* the field of the state a stage assigns
OwnField(node) ==
    CASE node = "retrieve_knowledge" -> {"knowledge_context"}
      [] node = "check_compliance" -> {"compliance"}
      [] node = "identify_risks" -> {"risks"}
      [] node = "generate_summary" -> {"summary"}
      [] node = "calculate_score" -> {"score"}
      [] OTHER -> {}

\* C30: a stage returns its input state with at most its own field
\* changed (parse with none changed), with a logger and without; text is
\* the same after every stage.
C30_StageWritesOwnField ==
    stage.node # "none" =>
        \A out \in {stage.traced, stage.plain} :
            /\ out.state.text = stage.input.text
            /\ \A f \in DOMAIN stage.input \ OwnField(stage.node) :
                  out.state[f] = stage.input[f]

\* calculate_score has changed the score of a state that holds compliance
\* entries and risks
C30_Witness ==
    /\ stage.node = "calculate_score"
    /\ stage.input.compliance # <<>>
    /\ stage.input.risks # <<>>
    /\ stage.plain.state.score # stage.input.score
    /\ stage.n = 3


=============================================================================
